---- MODULE Spec2Model ----
(***************************************************************************)
(* Electronic Circuit Analyzer (Source.cpp): the component ledger          *)
(* (componentsData, seriesCircuit, parallelCircuit), its snapshot history  *)
(* (undoStack), the activity log (opQueue) and the ID counter (nextId).    *)
(*                                                                         *)
(* Every function of the source that touches the ledger is an operator     *)
(* from a ledger value (a record of the globals) to the ledger value the   *)
(* function leaves behind; the actions apply these operators to the        *)
(* globals.  Component values are doubles in the source; the model draws   *)
(* them from a range of integers, which doubles represent exactly.         *)
(*                                                                         *)
(* Spec makes the ledger calls (AddComponent, RemoveComponent, Undo) in    *)
(* any order.  QuerySpec adds the queries (FindComponent, CalcSeries,      *)
(* CalcParallel, CalcSeriesImpedance) and draws the values from 1, 10 and  *)
(* 100.  LogSpec is one long session on a single component, long enough    *)
(* for the activity log to overflow.  GuiSpec makes the calls the way the  *)
(* program does: through the button handlers of the screens, one screen at *)
(* a time.  nextId is an int in the source; the bounds keep it far below   *)
(* overflow.  The results of the Calc functions are doubles in the source; *)
(* the model computes them as exact fractions.                             *)
(***************************************************************************)
EXTENDS Integers, Sequences, FiniteSets, TLC

VARIABLES
    componentsData,    \* std::list<Component>: sequence of component records
    seriesCircuit,     \* std::list<int>: IDs of the series group
    parallelCircuit,   \* std::list<int>: IDs of the parallel group
    undoStack,         \* std::stack<std::list<Component>>: top is the last element
    opQueue,           \* std::queue<Operation>: front is the first element
    nextId,            \* int
    searchedComponent, \* Component*: the id of the node pointed to, NULL when null
    currentScreen,     \* ScreenState
    statusMessage,     \* std::string
    addType,           \* ComponentType selected on the add screen
    addCircuit,        \* CircuitType selected on the add screen
    lastCall,          \* history: the last ledger call and what it returned
    beforeMutation,    \* history: collection and lists just before the last successful add or remove
    addLog,            \* history: per successful add, the ID assigned and the arguments given
    pushLog,           \* history: the label of every successful add and remove, in call order
    undoCount          \* history: the number of Undo calls that found a snapshot

ledgerVars == <<componentsData, seriesCircuit, parallelCircuit, undoStack, opQueue, nextId>>
guiVars == <<searchedComponent, currentScreen, statusMessage, addType, addCircuit>>
histVars == <<lastCall, beforeMutation, addLog, pushLog, undoCount>>
vars == <<componentsData, seriesCircuit, parallelCircuit, undoStack, opQueue, nextId,
          searchedComponent, currentScreen, statusMessage, addType, addCircuit,
          lastCall, beforeMutation, addLog, pushLog, undoCount>>

---------------------------------------------------------------------------
(* Bounds of the model *)

\* successful adds per behaviour of Spec
MaxAdds == 2
\* snapshots pushed (successful adds and removes) per behaviour of Spec
MaxOps == 3
\* successful adds per behaviour of GuiSpec
GuiMaxAdds == 1
\* snapshots pushed per behaviour of GuiSpec
GuiMaxOps == 2
\* component values are drawn from 1..MaxValue
MaxValue == 1

---------------------------------------------------------------------------
(* Data structures *)

ComponentType == {"RESISTOR", "CAPACITOR", "INDUCTOR"}
CircuitType == {"SERIES", "PARALLEL"}

\* variant: the constructor leaves circuitType at its first enumerator
ComponentDefaultGroup(_id, _t, _v, _ct) ==
    [id |-> _id, type |-> _t, value |-> _v, circuitType |-> "SERIES"]

Component(_id, _t, _v, _ct) == [id |-> _id, type |-> _t, value |-> _v, circuitType |-> _ct]

\* opQueue.size() > 20
OpQueueCap == 20

\* the globals as one value
Ledger ==
    [componentsData |-> componentsData, seriesCircuit |-> seriesCircuit,
     parallelCircuit |-> parallelCircuit, undoStack |-> undoStack,
     opQueue |-> opQueue, nextId |-> nextId]

EmptyLedger ==
    [componentsData |-> <<>>, seriesCircuit |-> <<>>, parallelCircuit |-> <<>>,
     undoStack |-> <<>>, opQueue |-> <<>>, nextId |-> 1]

TypeToString(t) ==
    IF t = "RESISTOR" THEN "Resistor"
    ELSE IF t = "CAPACITOR" THEN "Capacitor"
    ELSE "Inductor"

\* the description AddComponent builds with its stringstream
AddedLabel(type, circuit, id, value) == <<"Added", TypeToString(type), circuit, id, value>>

\* the description RemoveComponent builds with its stringstream
RemovedLabel(id) == <<"Removed", id>>

---------------------------------------------------------------------------
(* std::list helpers *)

\* std::list<int>::remove(x): erases every element equal to x
ListRemove(l, x) == SelectSeq(l, LAMBDA e : e # x)

\* position of the first component with the given id, 0 when there is none
\* (the loop `for (it = begin; it != end; ++it) if (it->id == id)`)
FirstWithId(l, id) ==
    IF \E i \in 1..Len(l) : l[i].id = id
    THEN CHOOSE i \in 1..Len(l) : l[i].id = id /\ \A j \in 1..(i - 1) : l[j].id # id
    ELSE 0

\* std::list::erase(it)
EraseAt(l, i) == SubSeq(l, 1, i - 1) \o SubSeq(l, i + 1, Len(l))

---------------------------------------------------------------------------
(* Ledger operations *)

\* the mutant: on overflow the newest entry is dropped, not the oldest
PushSnapshotDropsNewest(s, desc) ==
    LET pushed == Append(s.opQueue, [description |-> desc])
    IN  [s EXCEPT !.undoStack = Append(@, s.componentsData),
                  !.opQueue = IF Len(pushed) > OpQueueCap
                              THEN SubSeq(pushed, 1, OpQueueCap) ELSE pushed]

PushSnapshot(s, desc) ==
    LET pushed == Append(s.opQueue, [description |-> desc])
    IN  [s EXCEPT !.undoStack = Append(@, s.componentsData),
                  !.opQueue = IF Len(pushed) > OpQueueCap THEN Tail(pushed) ELSE pushed]

\* variant: the counter is not advanced
AddKeepsNextId(s, type, value, circuit) ==
    LET s1 == [s EXCEPT !.componentsData = Append(@, Component(s.nextId, type, value, circuit))]
        s2 == IF circuit = "SERIES"
              THEN [s1 EXCEPT !.seriesCircuit = Append(@, s1.nextId)]
              ELSE [s1 EXCEPT !.parallelCircuit = Append(@, s1.nextId)]
    IN  PushSnapshot(s2, AddedLabel(type, circuit, s2.nextId, value))

AddComponent(s, type, value, circuit) ==
    LET s1 == [s EXCEPT !.componentsData = Append(@, Component(s.nextId, type, value, circuit))]
        s2 == IF circuit = "SERIES"
              THEN [s1 EXCEPT !.seriesCircuit = Append(@, s1.nextId)]
              ELSE [s1 EXCEPT !.parallelCircuit = Append(@, s1.nextId)]
        s3 == PushSnapshot(s2, AddedLabel(type, circuit, s2.nextId, value))
    IN  [s3 EXCEPT !.nextId = @ + 1]

\* variant: the snapshot is pushed after the erase
RemoveSnapshotsAfterErase(s, id) ==
    LET i == FirstWithId(s.componentsData, id)
    IN  IF i = 0 THEN [ret |-> FALSE, ledger |-> s]
        ELSE LET s1 == [s EXCEPT !.seriesCircuit = ListRemove(@, id),
                                 !.parallelCircuit = ListRemove(@, id),
                                 !.componentsData = EraseAt(@, i)]
             IN  [ret |-> TRUE, ledger |-> PushSnapshot(s1, RemovedLabel(id))]

\* variant: the snapshot is pushed before the search
RemoveSnapshotsBeforeSearch(s, id) ==
    LET i == FirstWithId(s.componentsData, id)
        s0 == PushSnapshot(s, RemovedLabel(id))
    IN  IF i = 0 THEN [ret |-> FALSE, ledger |-> s0]
        ELSE [ret |-> TRUE,
              ledger |-> [s0 EXCEPT !.seriesCircuit = ListRemove(@, id),
                                    !.parallelCircuit = ListRemove(@, id),
                                    !.componentsData = EraseAt(@, i)]]

\* returns the bool and the ledger
RemoveComponent(s, id) ==
    LET i == FirstWithId(s.componentsData, id)
    IN  IF i = 0 THEN [ret |-> FALSE, ledger |-> s]
        ELSE LET s1 == [s EXCEPT !.seriesCircuit = ListRemove(@, id),
                                 !.parallelCircuit = ListRemove(@, id)]
                 s2 == PushSnapshot(s1, RemovedLabel(id))
             IN  [ret |-> TRUE,
                  ledger |-> [s2 EXCEPT !.componentsData = EraseAt(@, i)]]

\* the rebuild loop of Undo: IDs of the components of one group, in list order
IdsOfGroup(l, ct) ==
    LET sel == SelectSeq(l, LAMBDA c : c.circuitType = ct)
    IN  [i \in 1..Len(sel) |-> sel[i].id]

\* variant: the membership lists are not rebuilt
UndoKeepsLists(s) ==
    IF s.undoStack # <<>>
    THEN [s EXCEPT !.componentsData = s.undoStack[Len(s.undoStack)],
                   !.undoStack = SubSeq(@, 1, Len(@) - 1)]
    ELSE s

\* variant: no emptiness test; an empty history restores an empty collection
UndoUnguarded(s) ==
    LET top == IF s.undoStack # <<>> THEN s.undoStack[Len(s.undoStack)] ELSE <<>>
    IN  [s EXCEPT !.componentsData = top,
                  !.undoStack = SubSeq(@, 1, Len(@) - 1),
                  !.seriesCircuit = IdsOfGroup(top, "SERIES"),
                  !.parallelCircuit = IdsOfGroup(top, "PARALLEL")]

\* variant: the counter is rolled back to one past the largest restored ID
UndoRollsBackNextId(s) ==
    IF s.undoStack # <<>>
    THEN LET top == s.undoStack[Len(s.undoStack)]
             ids == {top[i].id : i \in 1..Len(top)} \cup {0}
         IN  [s EXCEPT !.componentsData = top,
                       !.undoStack = SubSeq(@, 1, Len(@) - 1),
                       !.seriesCircuit = IdsOfGroup(top, "SERIES"),
                       !.parallelCircuit = IdsOfGroup(top, "PARALLEL"),
                       !.nextId = 1 + (CHOOSE m \in ids : \A k \in ids : k <= m)]
    ELSE s

\* the mutant: the lists are rebuilt back to front
UndoRebuildsReversed(s) ==
    LET Reverse(l) == [i \in 1..Len(l) |-> l[Len(l) + 1 - i]]
    IN  IF s.undoStack # <<>>
        THEN LET top == s.undoStack[Len(s.undoStack)]
             IN  [s EXCEPT !.componentsData = top,
                           !.undoStack = SubSeq(@, 1, Len(@) - 1),
                           !.seriesCircuit = Reverse(IdsOfGroup(top, "SERIES")),
                           !.parallelCircuit = Reverse(IdsOfGroup(top, "PARALLEL"))]
        ELSE s

\* the mutant: the snapshot restored stays on the stack
UndoKeepsSnapshot(s) ==
    IF s.undoStack # <<>>
    THEN LET top == s.undoStack[Len(s.undoStack)]
         IN  [s EXCEPT !.componentsData = top,
                       !.seriesCircuit = IdsOfGroup(top, "SERIES"),
                       !.parallelCircuit = IdsOfGroup(top, "PARALLEL")]
    ELSE s

Undo(s) ==
    IF s.undoStack # <<>>
    THEN LET top == s.undoStack[Len(s.undoStack)]
         IN  [s EXCEPT !.componentsData = top,
                       !.undoStack = SubSeq(@, 1, Len(@) - 1),
                       !.seriesCircuit = IdsOfGroup(top, "SERIES"),
                       !.parallelCircuit = IdsOfGroup(top, "PARALLEL")]
    ELSE s

\* the null pointer
NULL == 0

\* the mutant: the search starts at the second node
FindComponentSkipsFirst(s, id) ==
    LET i == FirstWithId(Tail(s.componentsData), id)
    IN  IF s.componentsData = <<>> \/ i = 0 THEN NULL ELSE s.componentsData[i + 1].id

\* returns the pointer: the id of the node found, NULL when there is none
FindComponent(s, id) ==
    LET i == FirstWithId(s.componentsData, id)
    IN  IF i = 0 THEN NULL ELSE s.componentsData[i].id

\* the node a non-null pointer returned by FindComponent refers to
Deref(s, ptr) == s.componentsData[FirstWithId(s.componentsData, ptr)]

---------------------------------------------------------------------------
(* double arithmetic: exact fractions, reduced, with a positive denominator *)

RECURSIVE GCD(_, _)
GCD(a, b) == IF b = 0 THEN a ELSE GCD(b, a % b)

Abs(n) == IF n < 0 THEN -n ELSE n

Frac(n, d) ==
    LET g == GCD(Abs(n), Abs(d))
        sign == IF d < 0 THEN -1 ELSE 1
    IN  [num |-> sign * (n \div g), den |-> sign * (d \div g)]

Zero == Frac(0, 1)

\* x + y, over the least common denominator
FracAdd(x, y) ==
    LET l == (x.den \div GCD(x.den, y.den)) * y.den
    IN  Frac(x.num * (l \div x.den) + y.num * (l \div y.den), l)

\* 1.0 / x, for x # 0
FracInv(x) == Frac(x.den, x.num)

---------------------------------------------------------------------------
(* The aggregate computations *)

\* the mutant: every found component is summed, whatever its type
CalcSeriesAnyType(s, ids) ==
    LET RECURSIVE loop(_, _)
        loop(k, sum) ==
            IF k > Len(ids) THEN sum
            ELSE LET c == FindComponent(s, ids[k])
                 IN  loop(k + 1, IF c # NULL
                                 THEN FracAdd(sum, Frac(Deref(s, c).value, 1))
                                 ELSE sum)
    IN  loop(1, Zero)

CalcSeries(s, ids) ==
    LET RECURSIVE loop(_, _)
        loop(k, sum) ==
            IF k > Len(ids) THEN sum
            ELSE LET c == FindComponent(s, ids[k])
                 IN  loop(k + 1, IF c # NULL /\ Deref(s, c).type = "RESISTOR"
                                 THEN FracAdd(sum, Frac(Deref(s, c).value, 1))
                                 ELSE sum)
    IN  loop(1, Zero)

\* the mutant: the reciprocal sum is returned without being inverted
CalcParallelNotInverted(s, ids) ==
    LET RECURSIVE loop(_, _)
        loop(k, inv) ==
            IF k > Len(ids) THEN inv
            ELSE LET c == FindComponent(s, ids[k])
                 IN  loop(k + 1, IF /\ c # NULL
                                    /\ Deref(s, c).type = "RESISTOR"
                                    /\ Deref(s, c).value # 0
                                 THEN FracAdd(inv, FracInv(Frac(Deref(s, c).value, 1)))
                                 ELSE inv)
        inv == loop(1, Zero)
    IN  inv

CalcParallel(s, ids) ==
    LET RECURSIVE loop(_, _)
        loop(k, inv) ==
            IF k > Len(ids) THEN inv
            ELSE LET c == FindComponent(s, ids[k])
                 IN  loop(k + 1, IF /\ c # NULL
                                    /\ Deref(s, c).type = "RESISTOR"
                                    /\ Deref(s, c).value # 0
                                 THEN FracAdd(inv, FracInv(Frac(Deref(s, c).value, 1)))
                                 ELSE inv)
        inv == loop(1, Zero)
    IN  IF inv = Zero THEN Zero ELSE FracInv(inv)

\* the analysis frequency, in Hz
analysisFrequencyHz == 50

\* A complex number of the computation, kept exact: the real part is
\* re + open * 1e10 and the imaginary part is pi * M_PI + invPi / M_PI, with
\* re, pi and invPi fractions and open a count.
Complex(re, open, pi, invPi) == [re |-> re, open |-> open, pi |-> pi, invPi |-> invPi]

ComplexZero == Complex(Zero, 0, Zero, Zero)

ComplexAdd(x, y) ==
    Complex(FracAdd(x.re, y.re), x.open + y.open, FracAdd(x.pi, y.pi),
            FracAdd(x.invPi, y.invPi))

\* the mutant: a capacitor's reactance is counted like an inductor's
ImpedanceCapacitorAsInductor(c, freqHz) ==
    IF c.type = "RESISTOR" THEN Complex(Frac(c.value, 1), 0, Zero, Zero)
    ELSE Complex(Zero, 0, Frac(2 * freqHz * c.value, 1), Zero)

\* for a non-null c; omega = 2.0 * M_PI * freqHz
GetComponentImpedanceComplex(c, freqHz) ==
    IF c.type = "RESISTOR" THEN Complex(Frac(c.value, 1), 0, Zero, Zero)
    ELSE IF c.type = "INDUCTOR" THEN Complex(Zero, 0, Frac(2 * freqHz * c.value, 1), Zero)
    ELSE IF c.value = 0 THEN Complex(Zero, 1, Zero, Zero)
    ELSE Complex(Zero, 0, Zero, Frac(-1, 2 * freqHz * c.value))

\* std::abs(sum) is returned as the sum it is the magnitude of
CalcSeriesImpedance(s, ids, freqHz) ==
    LET RECURSIVE loop(_, _)
        loop(k, sum) ==
            IF k > Len(ids) THEN sum
            ELSE LET c == FindComponent(s, ids[k])
                 IN  loop(k + 1, IF c # NULL
                                 THEN ComplexAdd(sum, GetComponentImpedanceComplex(Deref(s, c), freqHz))
                                 ELSE sum)
    IN  [absOf |-> loop(1, ComplexZero)]

---------------------------------------------------------------------------
(* History variables *)

\* what Undo is specified to restore: the collection and both membership lists
View(s) ==
    [componentsData |-> s.componentsData, seriesCircuit |-> s.seriesCircuit,
     parallelCircuit |-> s.parallelCircuit]

NoCall ==
    [op |-> "none", returns |-> "void", ret |-> "void", after |-> "none",
     emptyHistory |-> FALSE]

\* a mutating call that succeeded
Mutated(call) ==
    \/ call.op = "AddComponent"
    \/ call.op = "RemoveComponent" /\ call.ret

\* the call made now: the function, its return type, the value returned ("void"
\* when the function returns none); an Undo also keeps which successful
\* mutation, if any, was the call immediately before it, and whether it found
\* the history stack empty
Record(op, returns, ret) ==
    lastCall' = [op |-> op, returns |-> returns, ret |-> ret,
                 after |-> IF op = "Undo" /\ Mutated(lastCall) THEN lastCall.op ELSE "none",
                 emptyHistory |-> op = "Undo" /\ undoStack = <<>>]

Last(l) == l[Len(l)]

---------------------------------------------------------------------------
(* Actions: the ledger calls, in any order (Spec) *)

SetLedger(s) ==
    /\ componentsData' = s.componentsData
    /\ seriesCircuit' = s.seriesCircuit
    /\ parallelCircuit' = s.parallelCircuit
    /\ undoStack' = s.undoStack
    /\ opQueue' = s.opQueue
    /\ nextId' = s.nextId

Init ==
    /\ componentsData = EmptyLedger.componentsData
    /\ seriesCircuit = EmptyLedger.seriesCircuit
    /\ parallelCircuit = EmptyLedger.parallelCircuit
    /\ undoStack = EmptyLedger.undoStack
    /\ opQueue = EmptyLedger.opQueue
    /\ nextId = EmptyLedger.nextId
    /\ searchedComponent = NULL
    /\ currentScreen = "MAIN_MENU"
    /\ statusMessage = ""
    /\ addType = "RESISTOR"
    /\ addCircuit = "SERIES"
    /\ lastCall = NoCall
    /\ beforeMutation = View(EmptyLedger)
    /\ addLog = <<>>
    /\ pushLog = <<>>
    /\ undoCount = 0

\* AddComponent(type, value, circuit) on the globals; the caller passes value > 0
DoAddComponent(type, value, circuit) ==
    LET s == AddComponent(Ledger, type, value, circuit)
    IN  /\ SetLedger(s)
        /\ Record("AddComponent", "void", "void")
        /\ beforeMutation' = View(Ledger)
        /\ addLog' = Append(addLog, [id |-> Last(s.componentsData).id, type |-> type,
                                     value |-> value, circuitType |-> circuit])
        /\ pushLog' = Append(pushLog, AddedLabel(type, circuit, nextId, value))
        /\ UNCHANGED undoCount

\* RemoveComponent(id) on the globals
DoRemoveComponent(id) ==
    LET r == RemoveComponent(Ledger, id)
    IN  /\ SetLedger(r.ledger)
        /\ Record("RemoveComponent", "bool", r.ret)
        /\ beforeMutation' = IF r.ret THEN View(Ledger) ELSE beforeMutation
        /\ pushLog' = IF r.ret THEN Append(pushLog, RemovedLabel(id)) ELSE pushLog
        /\ UNCHANGED <<addLog, undoCount>>

\* Undo() on the globals
DoUndo ==
    /\ SetLedger(Undo(Ledger))
    /\ Record("Undo", "void", "void")
    /\ undoCount' = IF undoStack # <<>> THEN undoCount + 1 ELSE undoCount
    /\ UNCHANGED <<beforeMutation, addLog, pushLog>>

CallAddComponent ==
    \E type \in ComponentType, value \in 1..MaxValue, circuit \in CircuitType :
        /\ Len(addLog) < MaxAdds
        /\ Len(opQueue) < MaxOps
        /\ DoAddComponent(type, value, circuit)
        /\ UNCHANGED guiVars

CallRemoveComponent ==
    \E id \in 0..(MaxAdds + 1) :
        /\ RemoveComponent(Ledger, id).ret => Len(opQueue) < MaxOps
        /\ DoRemoveComponent(id)
        /\ UNCHANGED guiVars

CallUndo ==
    /\ DoUndo
    /\ UNCHANGED guiVars

Next == CallAddComponent \/ CallRemoveComponent \/ CallUndo

Spec == Init /\ [][Next]_vars

---------------------------------------------------------------------------
(* The ledger calls together with the queries, in any order (QuerySpec) *)

QueryMaxAdds == 2

QueryMaxOps == 2

\* the values added: ohms, farads or henries
QueryValues == {1, 10, 100}

QueryAddComponent ==
    \E type \in ComponentType, value \in QueryValues, circuit \in CircuitType :
        /\ Len(addLog) < QueryMaxAdds
        /\ Len(pushLog) < QueryMaxOps
        /\ DoAddComponent(type, value, circuit)
        /\ UNCHANGED guiVars

QueryRemoveComponent ==
    \E id \in 0..(QueryMaxAdds + 1) :
        /\ RemoveComponent(Ledger, id).ret => Len(pushLog) < QueryMaxOps
        /\ DoRemoveComponent(id)
        /\ UNCHANGED guiVars

QueryUndo ==
    /\ DoUndo
    /\ UNCHANGED guiVars

\* FindComponent(id) on the globals
CallFindComponent ==
    \E id \in 0..(QueryMaxAdds + 1) :
        /\ Record("FindComponent", "Component*", FindComponent(Ledger, id))
        /\ UNCHANGED <<ledgerVars, guiVars, beforeMutation, addLog, pushLog, undoCount>>

\* CalcSeries(seriesCircuit), as the display and analysis screens call it
CallCalcSeries ==
    /\ Record("CalcSeries", "double", CalcSeries(Ledger, seriesCircuit))
    /\ UNCHANGED <<ledgerVars, guiVars, beforeMutation, addLog, pushLog, undoCount>>

\* CalcParallel(parallelCircuit), as the display and analysis screens call it
CallCalcParallel ==
    /\ Record("CalcParallel", "double", CalcParallel(Ledger, parallelCircuit))
    /\ UNCHANGED <<ledgerVars, guiVars, beforeMutation, addLog, pushLog, undoCount>>

\* CalcSeriesImpedance(seriesCircuit, analysisFrequencyHz), as the screens call it
CallCalcSeriesImpedance ==
    /\ Record("CalcSeriesImpedance", "double",
              CalcSeriesImpedance(Ledger, seriesCircuit, analysisFrequencyHz))
    /\ UNCHANGED <<ledgerVars, guiVars, beforeMutation, addLog, pushLog, undoCount>>

QueryNext ==
    \/ QueryAddComponent
    \/ QueryRemoveComponent
    \/ QueryUndo
    \/ CallFindComponent
    \/ CallCalcSeries
    \/ CallCalcParallel
    \/ CallCalcSeriesImpedance

QuerySpec == Init /\ [][QueryNext]_vars

---------------------------------------------------------------------------
(* A long session on one component (LogSpec): the component is added, then
   removed and brought back by Undo over and over, until the activity log has
   overflowed *)

LogMaxOps == 22

LogAddComponent ==
    \E type \in ComponentType, value \in 1..MaxValue, circuit \in CircuitType :
        /\ pushLog = <<>>
        /\ DoAddComponent(type, value, circuit)
        /\ UNCHANGED guiVars

LogRemoveComponent ==
    \E id \in 1..2 :
        /\ RemoveComponent(Ledger, id).ret => Len(pushLog) < LogMaxOps
        /\ DoRemoveComponent(id)
        /\ UNCHANGED guiVars

LogUndo ==
    /\ DoUndo
    /\ UNCHANGED guiVars

LogNext == LogAddComponent \/ LogRemoveComponent \/ LogUndo

LogSpec == Init /\ [][LogNext]_vars

---------------------------------------------------------------------------
(* Text input: the characters typed into textBuffer, and their parsing *)

DigitChar == <<"0", "1", "2", "3", "4", "5", "6", "7", "8", "9">>

IsDigit(c) == \E d \in 1..Len(DigitChar) : DigitChar[d] = c

DigitValue(c) == (CHOOSE d \in 1..Len(DigitChar) : DigitChar[d] = c) - 1

\* value of the longest prefix of digits of text, read after the digits `acc`
RECURSIVE DigitsPrefix(_, _)
DigitsPrefix(text, acc) ==
    IF text # <<>> /\ IsDigit(Head(text))
    THEN DigitsPrefix(Tail(text), 10 * acc + DigitValue(Head(text)))
    ELSE acc

\* std::stod / std::stoi on texts made of '-', digits and letters: an optional
\* sign, then at least one digit; anything after the digits is ignored, and a
\* text with no leading number throws std::invalid_argument
ParseNumber(text) ==
    LET neg == text # <<>> /\ Head(text) = "-"
        body == IF neg THEN Tail(text) ELSE text
    IN  IF body # <<>> /\ IsDigit(Head(body))
        THEN [throws |-> FALSE,
              v |-> IF neg THEN 0 - DigitsPrefix(body, 0) ELSE DigitsPrefix(body, 0)]
        ELSE [throws |-> TRUE, v |-> 0]

StringToDoubleSafe(text) ==
    IF text = <<>> THEN [ok |-> FALSE, v |-> 0]
    ELSE LET p == ParseNumber(text)
         IN  IF p.throws THEN [ok |-> FALSE, v |-> 0] ELSE [ok |-> TRUE, v |-> p.v]

StringToIntSafe(text) ==
    IF text = <<>> THEN [ok |-> FALSE, v |-> 0]
    ELSE LET p == ParseNumber(text)
         IN  IF p.throws THEN [ok |-> FALSE, v |-> 0] ELSE [ok |-> TRUE, v |-> p.v]

\* texts that hold no number, a negative number, and a number followed by a letter
OddTexts == {<<>>, <<"a">>, <<"-", "1">>, <<"1", "a">>}

\* what the user types on the add screen
ValueTexts == OddTexts \cup {<<DigitChar[k + 1]>> : k \in 0..MaxValue}

\* what the user types on the remove and search screens
IdTexts == OddTexts \cup {<<DigitChar[k + 1]>> : k \in 0..(GuiMaxAdds + 1)}

---------------------------------------------------------------------------
(* Actions: the screens (GuiSpec).  One frame draws the current screen and  *)
(* handles at most one released mouse button; textBuffer is the text the    *)
(* user has typed by the time a button is released.                        *)

\* the mutant: the cached search result survives the Back button
BackKeepsSearchResult ==
    /\ currentScreen # "MAIN_MENU"
    /\ currentScreen' = "MAIN_MENU"
    /\ statusMessage' = ""
    /\ UNCHANGED <<ledgerVars, histVars, addType, addCircuit, searchedComponent>>

DrawBackButton ==
    /\ currentScreen # "MAIN_MENU"
    /\ currentScreen' = "MAIN_MENU"
    /\ statusMessage' = ""
    /\ searchedComponent' = NULL
    /\ UNCHANGED <<ledgerVars, histVars, addType, addCircuit>>

MenuScreens ==
    <<"ADD_COMPONENT", "REMOVE_COMPONENT", "SEARCH_COMPONENT", "DISPLAY_ALL", "CALC_RESISTANCE">>

\* buttons 0..4 of the main menu
DrawMainMenuGoto ==
    \E i \in 1..Len(MenuScreens) :
        /\ currentScreen = "MAIN_MENU"
        /\ statusMessage' = ""
        /\ currentScreen' = MenuScreens[i]
        /\ UNCHANGED <<ledgerVars, histVars, searchedComponent, addType, addCircuit>>

\* button 5 of the main menu
DrawMainMenuUndo ==
    /\ currentScreen = "MAIN_MENU"
    /\ statusMessage' = ""
    /\ DoUndo
    /\ UNCHANGED <<currentScreen, searchedComponent, addType, addCircuit>>

DrawAddScreenSelectCircuit ==
    \E c \in CircuitType :
        /\ currentScreen = "ADD_COMPONENT"
        /\ addCircuit' = c
        /\ UNCHANGED <<ledgerVars, histVars, searchedComponent, currentScreen,
                       statusMessage, addType>>

DrawAddScreenSelectType ==
    \E t \in ComponentType :
        /\ currentScreen = "ADD_COMPONENT"
        /\ addType' = t
        /\ UNCHANGED <<ledgerVars, histVars, searchedComponent, currentScreen,
                       statusMessage, addCircuit>>

\* variant: the sign of the parsed value is not tested
AddButtonUnchecked(textBuffer) ==
    LET p == StringToDoubleSafe(textBuffer)
    IN  IF p.ok
        THEN /\ DoAddComponent(addType, p.v, addCircuit)
             /\ statusMessage' = "Component added successfully!"
        ELSE /\ statusMessage' = "Invalid value. Enter a positive number."
             /\ UNCHANGED <<ledgerVars, histVars>>

\* the Add button with `textBuffer` typed
AddButton(textBuffer) ==
    LET p == StringToDoubleSafe(textBuffer)
    IN  IF p.ok /\ p.v > 0
        THEN /\ DoAddComponent(addType, p.v, addCircuit)
             /\ statusMessage' = "Component added successfully!"
        ELSE /\ statusMessage' = "Invalid value. Enter a positive number."
             /\ UNCHANGED <<ledgerVars, histVars>>

DrawAddScreenAdd ==
    \E textBuffer \in ValueTexts :
        /\ currentScreen = "ADD_COMPONENT"
        /\ (StringToDoubleSafe(textBuffer).ok /\ StringToDoubleSafe(textBuffer).v > 0)
              => (Len(addLog) < GuiMaxAdds /\ Len(opQueue) < GuiMaxOps)
        /\ AddButton(textBuffer)
        /\ UNCHANGED <<searchedComponent, currentScreen, addType, addCircuit>>

\* the Remove button with `textBuffer` typed
RemoveButton(textBuffer) ==
    LET p == StringToIntSafe(textBuffer)
    IN  IF p.ok
        THEN /\ DoRemoveComponent(p.v)
             /\ statusMessage' = IF RemoveComponent(Ledger, p.v).ret
                                 THEN "Component removed!" ELSE "Not found."
        ELSE /\ statusMessage' = "Invalid ID."
             /\ UNCHANGED <<ledgerVars, histVars>>

DrawRemoveScreenRemove ==
    \E textBuffer \in IdTexts :
        /\ currentScreen = "REMOVE_COMPONENT"
        /\ (StringToIntSafe(textBuffer).ok
              /\ RemoveComponent(Ledger, StringToIntSafe(textBuffer).v).ret)
              => Len(opQueue) < GuiMaxOps
        /\ RemoveButton(textBuffer)
        /\ UNCHANGED <<searchedComponent, currentScreen, addType, addCircuit>>

\* the Search button with `textBuffer` typed
SearchButton(textBuffer) ==
    LET p == StringToIntSafe(textBuffer)
        found == IF p.ok THEN FindComponent(Ledger, p.v) ELSE NULL
    IN  /\ searchedComponent' = found
        /\ statusMessage' = IF found # NULL THEN "Found!" ELSE "Not found."
        /\ IF p.ok THEN Record("FindComponent", "Component*", found) ELSE UNCHANGED lastCall
        /\ UNCHANGED <<ledgerVars, beforeMutation, addLog, pushLog, undoCount>>

DrawSearchScreenSearch ==
    \E textBuffer \in IdTexts :
        /\ currentScreen = "SEARCH_COMPONENT"
        /\ SearchButton(textBuffer)
        /\ UNCHANGED <<currentScreen, addType, addCircuit>>

GuiNext ==
    \/ DrawBackButton
    \/ DrawMainMenuGoto
    \/ DrawMainMenuUndo
    \/ DrawAddScreenSelectCircuit
    \/ DrawAddScreenSelectType
    \/ DrawAddScreenAdd
    \/ DrawRemoveScreenRemove
    \/ DrawSearchScreenSearch

GuiSpec == Init /\ [][GuiNext]_vars

---------------------------------------------------------------------------
(* Properties *)

Range(l) == {l[i] : i \in 1..Len(l)}

Ids(l) == {l[i].id : i \in 1..Len(l)}

NoDuplicates(l) == \A i, j \in 1..Len(l) : i # j => l[i] # l[j]

\* every component held by the collection or by a stored snapshot
StoredComponents ==
    Range(componentsData) \cup UNION {Range(undoStack[k]) : k \in 1..Len(undoStack)}

\* C1: between calls, the IDs of seriesCircuit and parallelCircuit together are
\* exactly the IDs of componentsData, the two lists share no ID and neither
\* holds an ID twice.
C1_MembershipPartition ==
    /\ Range(seriesCircuit) \cup Range(parallelCircuit) = Ids(componentsData)
    /\ Range(seriesCircuit) \cap Range(parallelCircuit) = {}
    /\ NoDuplicates(seriesCircuit)
    /\ NoDuplicates(parallelCircuit)

\* an Undo has rebuilt two non-empty lists
C1_Witness ==
    /\ lastCall.op = "Undo"
    /\ ~lastCall.emptyHistory
    /\ seriesCircuit # <<>>
    /\ parallelCircuit # <<>>

\* C2 (as claimed): an Undo immediately after a successful AddComponent leaves
\* the collection and both membership lists as they were before that add.
C2_UndoInvertsAdd ==
    (lastCall.op = "Undo" /\ lastCall.after = "AddComponent")
        => View(Ledger) = beforeMutation

\* C3: an Undo immediately after a successful RemoveComponent leaves the
\* collection (same components, same order) and both membership lists as they
\* were before that remove.
C3_UndoInvertsRemove ==
    (lastCall.op = "Undo" /\ lastCall.after = "RemoveComponent")
        => View(Ledger) = beforeMutation

\* an Undo has put back a removed component among others
C3_Witness ==
    /\ lastCall.op = "Undo"
    /\ lastCall.after = "RemoveComponent"
    /\ Len(componentsData) >= 2
    /\ View(Ledger) = beforeMutation

\* C4: the IDs assigned by successful adds strictly increase in call order (so
\* they are pairwise distinct), and no two components of the collection share
\* an ID, whatever removals and undos came between.
C4_IdsUniqueIncreasing ==
    /\ \A i, j \in 1..Len(addLog) : i < j => addLog[i].id < addLog[j].id
    /\ \A i, j \in 1..Len(componentsData) :
           i # j => componentsData[i].id # componentsData[j].id

\* a second add made after the first component was removed and an undo was made
C4_Witness ==
    /\ lastCall.op = "AddComponent"
    /\ Len(addLog) >= 2
    /\ Len(opQueue) > Len(addLog)
    /\ Len(undoStack) < Len(opQueue)

\* C5: RemoveComponent(id) with an id that is not in the collection returns
\* false and leaves the collection, both membership lists, the history stack,
\* the activity log and the next-ID counter as they were.
C5_RemoveAbsentIsNoOp ==
    \A id \in 0..(MaxAdds + 1) :
        id \notin Ids(componentsData)
            => RemoveComponent(Ledger, id) = [ret |-> FALSE, ledger |-> Ledger]

\* a remove has failed on a ledger that holds components and snapshots
C5_Witness ==
    /\ lastCall.op = "RemoveComponent"
    /\ ~lastCall.ret
    /\ componentsData # <<>>
    /\ undoStack # <<>>

C7_InvalidValueRejected ==
    /\ [](\A c \in StoredComponents : c.value > 0)
    /\ [][statusMessage' = "Invalid value. Enter a positive number."
            => UNCHANGED <<ledgerVars, addLog>>]_vars

\* an add request has been rejected on a ledger that holds a component
C7_Witness ==
    /\ currentScreen = "ADD_COMPONENT"
    /\ statusMessage = "Invalid value. Enter a positive number."
    /\ componentsData # <<>>

\* C8 (as claimed): right after a successful AddComponent or RemoveComponent the
\* top of the history stack is the collection as it was just before that call.
C8_SnapshotBeforeMutation ==
    Mutated(lastCall)
        => (undoStack # <<>> /\ Last(undoStack) = beforeMutation.componentsData)

\* C9: a step that is a successful add raises nextId by exactly 1 and every
\* other step (Undo, successful or not, and RemoveComponent) leaves it
\* unchanged; nextId is greater than every ID of the collection and of every
\* stored snapshot.
C9_NextIdIndependentOfUndo ==
    /\ [](\A c \in StoredComponents : c.id < nextId)
    /\ [][IF Len(addLog') = Len(addLog) + 1
          THEN nextId' = nextId + 1
          ELSE nextId' = nextId]_vars

\* an Undo has restored a collection whose IDs all lie more than one below nextId
C9_Witness ==
    /\ lastCall.op = "Undo"
    /\ ~lastCall.emptyHistory
    /\ componentsData # <<>>
    /\ \A c \in Range(componentsData) : c.id + 1 < nextId

\* C10: every component of the collection has the kind, value and group given
\* to the AddComponent call that assigned its ID, also after it was removed and
\* restored by Undo.
C10_ComponentImmutable ==
    \A i \in 1..Len(componentsData) :
        \E k \in 1..Len(addLog) :
            /\ addLog[k].id = componentsData[i].id
            /\ addLog[k].type = componentsData[i].type
            /\ addLog[k].value = componentsData[i].value
            /\ addLog[k].circuitType = componentsData[i].circuitType

\* the undo of a removal has restored a collection that holds a parallel component
C10_Witness ==
    /\ lastCall.op = "Undo"
    /\ lastCall.after = "RemoveComponent"
    /\ Len(addLog) >= 2
    /\ \E c \in Range(componentsData) : c.circuitType = "PARALLEL"

---------------------------------------------------------------------------
\* C11: the activity log never holds more than 20 entries; it holds the labels
\* of the most recent min(20, n) of the n successful adds and removes made so
\* far, oldest first; and a push onto a full log discards exactly the oldest
\* entry and puts the new label last.
MostRecentLabels ==
    LET n == Len(pushLog)
        k == IF n < OpQueueCap THEN n ELSE OpQueueCap
    IN  [i \in 1..k |-> [description |-> pushLog[n - k + i]]]

C11_ActivityLogBoundedFifo ==
    /\ [](Len(opQueue) <= OpQueueCap /\ opQueue = MostRecentLabels)
    /\ [][Len(opQueue) = OpQueueCap /\ pushLog' # pushLog
            => opQueue' = Append(Tail(opQueue), [description |-> Last(pushLog')])]_vars

\* the log has overflowed: the label of the add is gone, the log is full
C11_Witness ==
    /\ Len(pushLog) > OpQueueCap
    /\ Len(opQueue) = OpQueueCap
    /\ pushLog[1][1] = "Added"
    /\ \A i \in 1..Len(opQueue) : opQueue[i].description[1] = "Removed"

---------------------------------------------------------------------------
\* the sum of the values of a set of components
RECURSIVE SumOfValues(_)
SumOfValues(S) ==
    IF S = {} THEN 0
    ELSE LET c == CHOOSE x \in S : TRUE
         IN  c.value + SumOfValues(S \ {c})

\* the ID lists a caller may pass: any IDs, known or not, repeated or not
IdLists == UNION {[1..n -> 0..(QueryMaxAdds + 1)] : n \in 0..2}

\* what the entry ids[k] adds to the series resistance
SeriesShare(ids, k) ==
    IF \E c \in Range(componentsData) : c.id = ids[k] /\ c.type = "RESISTOR"
    THEN (CHOOSE c \in Range(componentsData) : c.id = ids[k]).value
    ELSE 0

RECURSIVE SeriesShares(_, _)
SeriesShares(ids, k) == IF k = 0 THEN 0 ELSE SeriesShares(ids, k - 1) + SeriesShare(ids, k)

\* three 10-ohm resistors added to the Series group of the empty ledger
ThreeTenOhm ==
    AddComponent(AddComponent(AddComponent(EmptyLedger, "RESISTOR", 10, "SERIES"),
                              "RESISTOR", 10, "SERIES"), "RESISTOR", 10, "SERIES")

\* C12: CalcSeries(ids) is the sum of the values of the entries of ids that are
\* resistors of the collection (capacitors, inductors and unknown IDs add 0,
\* the empty list gives 0, three 10-ohm series resistors give 30), and in
\* every reachable state CalcSeries(seriesCircuit) is the sum of the values of
\* the Series resistors of the collection.
C12_SeriesResistance ==
    /\ CalcSeries(Ledger, seriesCircuit)
         = Frac(SumOfValues({c \in Range(componentsData) :
                                c.type = "RESISTOR" /\ c.circuitType = "SERIES"}), 1)
    /\ lastCall.op = "CalcSeries"
         => /\ lastCall.ret = CalcSeries(Ledger, seriesCircuit)
            /\ \A ids \in IdLists :
                 CalcSeries(Ledger, ids) = Frac(SeriesShares(ids, Len(ids)), 1)
    /\ CalcSeries(Ledger, <<>>) = Frac(0, 1)
    /\ CalcSeries(ThreeTenOhm, ThreeTenOhm.seriesCircuit) = Frac(30, 1)

\* CalcSeries was called on a Series group of a resistor and a component of
\* another type: only the resistor counts
C12_Witness ==
    /\ lastCall.op = "CalcSeries"
    /\ \E c, d \in Range(componentsData) :
          /\ c.circuitType = "SERIES" /\ c.type = "RESISTOR"
          /\ d.circuitType = "SERIES" /\ d.type # "RESISTOR"
          /\ lastCall.ret = Frac(c.value, 1)
    /\ Len(seriesCircuit) = 2

---------------------------------------------------------------------------
\* the positions of ids that hold a resistor of the collection with value # 0
Eligible(ids) ==
    {k \in 1..Len(ids) :
        \E c \in Range(componentsData) :
            c.id = ids[k] /\ c.type = "RESISTOR" /\ c.value # 0}

ValueAt(ids, k) == (CHOOSE c \in Range(componentsData) : c.id = ids[k]).value

RECURSIVE ProductOfValues(_, _)
ProductOfValues(ids, K) ==
    IF K = {} THEN 1
    ELSE LET k == CHOOSE x \in K : TRUE
         IN  ValueAt(ids, k) * ProductOfValues(ids, K \ {k})

\* the sum of 1/value over the positions K, times the product p of the values
RECURSIVE ScaledReciprocals(_, _, _)
ScaledReciprocals(ids, K, p) ==
    IF K = {} THEN 0
    ELSE LET k == CHOOSE x \in K : TRUE
         IN  (p \div ValueAt(ids, k)) + ScaledReciprocals(ids, K \ {k}, p)

\* r = 1 / (sum of 1/value over the eligible entries), or r = 0 when there is none
IsParallelResistance(r, ids) ==
    LET K == Eligible(ids)
        p == ProductOfValues(ids, K)
    IN  IF K = {} THEN r = Frac(0, 1)
        ELSE r.den > 0 /\ r.num * ScaledReciprocals(ids, K, p) = r.den * p

\* a ledger whose Parallel group is one resistor of value 0
ZeroOhm == AddComponent(EmptyLedger, "RESISTOR", 0, "PARALLEL")

\* C13: CalcParallel(ids) is 1 / (sum of 1/value) over the entries of ids that
\* are resistors with value # 0, and 0 when ids is empty or has no such entry;
\* two 100-ohm resistors in parallel give 50.
C13_ParallelResistance ==
    /\ IsParallelResistance(CalcParallel(Ledger, parallelCircuit), parallelCircuit)
    /\ lastCall.op = "CalcParallel"
         => /\ lastCall.ret = CalcParallel(Ledger, parallelCircuit)
            /\ \A ids \in IdLists : IsParallelResistance(CalcParallel(Ledger, ids), ids)
    /\ CalcParallel(Ledger, <<>>) = Frac(0, 1)
    /\ CalcParallel(ZeroOhm, ZeroOhm.parallelCircuit) = Frac(0, 1)
    /\ ( /\ Len(parallelCircuit) = 2
         /\ \A c \in Range(componentsData) :
               c.circuitType = "PARALLEL" => c.type = "RESISTOR" /\ c.value = 100 )
         => CalcParallel(Ledger, parallelCircuit) = Frac(50, 1)

\* CalcParallel was called on two 100-ohm resistors in parallel and returned 50
C13_Witness ==
    /\ lastCall.op = "CalcParallel"
    /\ lastCall.ret = Frac(50, 1)
    /\ Len(parallelCircuit) = 2
    /\ \A c \in Range(componentsData) : c.type = "RESISTOR" /\ c.value = 100

---------------------------------------------------------------------------
\* C14: FindComponent(id) returns the component of the collection whose id is
\* the argument when there is one and not-found (NULL) when there is none, and
\* a call leaves the collection, both membership lists, the history stack, the
\* activity log and the next-ID counter as they were.
C14_FindComponentPure ==
    /\ [](\A id \in 0..(QueryMaxAdds + 1) :
            LET ptr == FindComponent(Ledger, id)
            IN  IF \E c \in Range(componentsData) : c.id = id
                THEN ptr # NULL /\ Deref(Ledger, ptr).id = id
                ELSE ptr = NULL)
    /\ [][lastCall'.op = "FindComponent"
            => /\ UNCHANGED ledgerVars
               /\ lastCall'.ret # NULL => lastCall'.ret \in Ids(componentsData)]_vars

\* a call found the second of two components
C14_Witness ==
    /\ lastCall.op = "FindComponent"
    /\ Len(componentsData) = 2
    /\ lastCall.ret = componentsData[2].id
    /\ undoStack # <<>>
    /\ opQueue # <<>>

---------------------------------------------------------------------------
\* M_PI lies strictly between these two, in millionths
PiLowMicro == 3141592

PiHighMicro == 3141593

\* the Series components of the collection of one type
SeriesOfType(type) ==
    {c \in Range(componentsData) : c.circuitType = "SERIES" /\ c.type = type}

RECURSIVE LCMOfReactances(_, _)
LCMOfReactances(S, f) ==
    IF S = {} THEN 1
    ELSE LET c == CHOOSE x \in S : TRUE
             rest == LCMOfReactances(S \ {c}, f)
             d == 2 * f * c.value
         IN  (rest \div GCD(rest, d)) * d

\* the sum of 1 / (2 * f * value) over the capacitors S, times l
RECURSIVE ScaledSusceptances(_, _, _)
ScaledSusceptances(S, f, l) ==
    IF S = {} THEN 0
    ELSE LET c == CHOOSE x \in S : TRUE
         IN  (l \div (2 * f * c.value)) + ScaledSusceptances(S \ {c}, f, l)

\* z is the sum of value over the Series resistors, plus j*2*pi*f*value over
\* the Series inductors, plus -j/(2*pi*f*value) over the Series capacitors
IsSeriesImpedanceSum(z, f) ==
    LET caps == SeriesOfType("CAPACITOR")
        l == LCMOfReactances(caps, f)
    IN  /\ z.re = Frac(SumOfValues(SeriesOfType("RESISTOR")), 1)
        /\ z.open = 0
        /\ z.pi = Frac(2 * f * SumOfValues(SeriesOfType("INDUCTOR")), 1)
        /\ z.invPi.den > 0
        /\ z.invPi.num * l = -(z.invPi.den * ScaledSusceptances(caps, f, l))

\* lo <= |z| <= hi, in millionths, for a z that is a multiple of j * M_PI
ImaginaryMagnitudeWithin(z, lo, hi) ==
    /\ z.re = Zero /\ z.open = 0 /\ z.invPi = Zero /\ z.pi.den = 1
    /\ lo <= Abs(z.pi.num) * PiLowMicro
    /\ Abs(z.pi.num) * PiHighMicro <= hi

\* C15: the series impedance magnitude is the magnitude of the complex sum of
\* the impedances of the components (resistor: value; inductor:
\* j*2*pi*f*value; capacitor: -j/(2*pi*f*value)); one 1 H inductor at 50 Hz in
\* series gives 314.159 within 1e-3.
C15_SeriesImpedance ==
    /\ IsSeriesImpedanceSum(CalcSeriesImpedance(Ledger, seriesCircuit, analysisFrequencyHz).absOf,
                            analysisFrequencyHz)
    /\ lastCall.op = "CalcSeriesImpedance"
         => lastCall.ret = CalcSeriesImpedance(Ledger, seriesCircuit, analysisFrequencyHz)
    /\ ( /\ Len(seriesCircuit) = 1
         /\ \E c \in Range(componentsData) :
               c.circuitType = "SERIES" /\ c.type = "INDUCTOR" /\ c.value = 1 )
         => ImaginaryMagnitudeWithin(
                CalcSeriesImpedance(Ledger, seriesCircuit, analysisFrequencyHz).absOf,
                314158000, 314160000)

\* the magnitude was computed for one inductor of 1 H alone in the Series
\* group, next to a capacitor in the Parallel group, and is within the tolerance
C15_Witness ==
    /\ lastCall.op = "CalcSeriesImpedance"
    /\ Len(seriesCircuit) = 1
    /\ \E c, d \in Range(componentsData) :
          /\ c.circuitType = "SERIES" /\ c.type = "INDUCTOR" /\ c.value = 1
          /\ d.circuitType = "PARALLEL" /\ d.type = "CAPACITOR"
    /\ ImaginaryMagnitudeWithin(lastCall.ret.absOf, 314158000, 314160000)

---------------------------------------------------------------------------
\* where the component with this id stands in the collection
PositionOf(id) == CHOOSE i \in 1..Len(componentsData) : componentsData[i].id = id

\* l holds the IDs of the components of group ct, once each, in collection order
InCollectionOrder(l, ct) ==
    /\ Range(l) = {c.id : c \in {x \in Range(componentsData) : x.circuitType = ct}}
    /\ NoDuplicates(l)
    /\ \A i, j \in 1..Len(l) : i < j => PositionOf(l[i]) < PositionOf(l[j])

\* C16: in every reachable state the Series-ID list is the IDs of the Series
\* components in collection order and the Parallel-ID list is the IDs of the
\* Parallel components in collection order; an Undo that finds a snapshot pops
\* the most recent one and makes it the collection.
C16_ListsInCollectionOrder ==
    /\ [](/\ InCollectionOrder(seriesCircuit, "SERIES")
          /\ InCollectionOrder(parallelCircuit, "PARALLEL"))
    /\ [][lastCall'.op = "Undo" /\ undoStack # <<>>
            => /\ componentsData' = undoStack[Len(undoStack)]
               /\ undoStack' = SubSeq(undoStack, 1, Len(undoStack) - 1)]_vars

\* an Undo has restored a snapshot with two components of one group
C16_Witness ==
    /\ lastCall.op = "Undo"
    /\ ~lastCall.emptyHistory
    /\ (Len(seriesCircuit) = 2 \/ Len(parallelCircuit) = 2)

---------------------------------------------------------------------------
\* C17: a successful add or remove pushes exactly one snapshot; a failed
\* remove, FindComponent and the Calc functions push none; an Undo that finds a
\* snapshot pops exactly one and pushes none; so the depth of the history
\* stack is the number of successful adds and removes minus the number of
\* successful undos.
C17_HistoryDepth ==
    /\ [](Len(undoStack) = Len(pushLog) - undoCount)
    /\ [][/\ lastCall'.op = "AddComponent"
             => pushLog' # pushLog /\ SubSeq(undoStack', 1, Len(undoStack)) = undoStack
                                  /\ Len(undoStack') = Len(undoStack) + 1
          /\ lastCall'.op = "RemoveComponent"
             => IF lastCall'.ret
                THEN /\ pushLog' # pushLog
                     /\ SubSeq(undoStack', 1, Len(undoStack)) = undoStack
                     /\ Len(undoStack') = Len(undoStack) + 1
                ELSE undoStack' = undoStack /\ pushLog' = pushLog
          /\ lastCall'.op \in {"FindComponent", "CalcSeries", "CalcParallel",
                               "CalcSeriesImpedance"}
             => undoStack' = undoStack /\ pushLog' = pushLog /\ undoCount' = undoCount
          /\ lastCall'.op = "Undo"
             => IF undoStack # <<>>
                THEN /\ undoStack' = SubSeq(undoStack, 1, Len(undoStack) - 1)
                     /\ undoCount' = undoCount + 1
                ELSE undoStack' = undoStack /\ undoCount' = undoCount]_vars

\* two snapshots were pushed, one was popped by an Undo, and a query followed
C17_Witness ==
    /\ Len(pushLog) = 2
    /\ undoCount = 1
    /\ Len(undoStack) = 1
    /\ lastCall.op \in {"FindComponent", "CalcSeries", "CalcParallel", "CalcSeriesImpedance"}

---------------------------------------------------------------------------
\* the two records describe the same call with the same outcome
SameCall(a, b) ==
    /\ a.op = b.op
    /\ a.returns = b.returns
    /\ a.after = b.after
    /\ a.emptyHistory = b.emptyHistory
    /\ a.ret = b.ret

\* this step ran AddComponent, RemoveComponent or Undo, as far as the state
\* shows: the ledger changed, or the last call became one of the three
MutationCalled ==
    \/ ledgerVars' # ledgerVars
    \/ /\ lastCall'.op \in {"AddComponent", "RemoveComponent", "Undo"}
       /\ ~SameCall(lastCall', lastCall)

\* C18: through the screen flow, searchedComponent is non-null only on the
\* search screen and then refers to a component of the collection; it is null
\* before and after every step that runs AddComponent, RemoveComponent or Undo.
C18_NoStaleSearchResult ==
    /\ [](searchedComponent # NULL
            => /\ currentScreen = "SEARCH_COMPONENT"
               /\ searchedComponent \in Ids(componentsData))
    /\ [][MutationCalled => searchedComponent = NULL /\ searchedComponent' = NULL]_vars

\* a search result is cached after the collection has been changed and restored
C18_Witness ==
    /\ searchedComponent # NULL
    /\ statusMessage = "Found!"
    /\ Len(pushLog) = 2
    /\ undoCount >= 1

====
